---- MODULE Spec2Model ----
(***************************************************************************)
(* Model of src/common/reports/report_service.go: the ReportService        *)
(* singleton, its Report, the report builder CreateReport and the JSON     *)
(* file renderer PrintJSONToFile, run against the change accumulator       *)
(* TagChangeAccumulatorInstance.                                           *)
(***************************************************************************)
EXTENDS Integers, Sequences, FiniteSets, TLC

VARIABLES
    acc,      \* TagChangeAccumulatorInstance: the three block collections
    report,   \* ReportServiceInst.report, the one Report struct every *Report points to
    handed,   \* TRUE once a caller holds the *Report returned by GetReport/CreateReport
    lastOp,   \* the operation that ran last
    out,      \* what the last PrintJSONToFile call did (warnings, bytes, return)
    pre       \* acc, report and handed as they were when the last operation was called

vars == <<acc, report, handed, lastOp, out, pre>>

\* Largest number of blocks the accumulator has scanned in a run.
MaxBlocks == 2

(***************************************************************************)
(* Strings are compared by Go's < on strings (bytewise lexicographic).     *)
(* KeyRank is the position of each tag key used here in that order.        *)
(***************************************************************************)
KeyRank == ("env" :> 1) @@ ("git_org" :> 2) @@ ("owner" :> 3) @@ ("team" :> 4)

\* a < b on tag keys.  The faulty variant compares with <=, as a
\* comparator written "not greater" would.
KeyLessOrEqual(a, b) == KeyRank[a] <= KeyRank[b]

KeyLess(a, b) == KeyRank[a] < KeyRank[b]

(***************************************************************************)
(* Go slices: the nil slice and a non-nil slice are different values, and  *)
(* append to either yields a non-nil slice.                                *)
(***************************************************************************)
NilSlice == [nil |-> TRUE, elems |-> <<>>]

\* Faulty variant of the literal []TagRecord{}: a declared, unallocated slice.
UnallocatedSlice == NilSlice

EmptySlice == [nil |-> FALSE, elems |-> <<>>]

GoAppend(s, x) == [nil |-> FALSE, elems |-> Append(s.elems, x)]

(***************************************************************************)
(* sort.SliceStable on at most 20 elements is an insertion sort: element i *)
(* moves left while less(it, its left neighbour).  Here the slice is       *)
(* sorted by the key field named by the comparator in the code; keys[i] is *)
(* the key of s[i].                                                        *)
(***************************************************************************)
Swap(a, i, j) == [a EXCEPT ![i] = a[j], ![j] = a[i]]

RECURSIVE SiftLeft(_, _)
SiftLeft(a, j) ==
    IF j > 1 /\ KeyLess(a[j].k, a[j - 1].k)
    THEN SiftLeft(Swap(a, j, j - 1), j - 1)
    ELSE a

RECURSIVE InsertionSort(_, _)
InsertionSort(a, i) ==
    IF i > Len(a) THEN a ELSE InsertionSort(SiftLeft(a, i), i + 1)

SliceStable(s, keys) ==
    LET keyed  == [i \in 1..Len(s) |-> [k |-> keys[i], v |-> s[i]]]
        sorted == InsertionSort(keyed, 2)
    IN  [i \in 1..Len(s) |-> sorted[i].v]

(***************************************************************************)
(* Blocks.  A block handle exposes its file path, resource identifier and  *)
(* trace identifier, the tags it had before this pass (existingTags), the  *)
(* tags computed on this pass (newTags) and the trace it already carried   *)
(* (prevTrace, "" when it is traced for the first time).                   *)
(***************************************************************************)
Tag(k, v) == [key |-> k, value |-> v]

Block(f, r, t, p, e, n) ==
    [file |-> f, resourceID |-> r, traceID |-> t, prevTrace |-> p,
     existingTags |-> e, newTags |-> n]

\* The blocks a scan may discover: two newly traced blocks in different
\* files with the same resource identifier, two updated blocks (one whose
\* new tags repeat a key), and a block whose tags did not change.
Blocks ==
    { Block("main.tf", "aws_s3_bucket.data", "t1", "", <<>>,
            <<Tag("owner", "bob"), Tag("env", "prod")>>),
      Block("mod/main.tf", "aws_s3_bucket.data", "t2", "", <<>>,
            <<Tag("team", "dev")>>),
      Block("main.tf", "aws_s3_bucket.logs", "t3", "t3",
            <<Tag("owner", "alice"), Tag("team", "ops")>>,
            <<Tag("team", "dev"), Tag("owner", "bob"),
              Tag("git_org", "acme"), Tag("env", "prod")>>),
      Block("mod/main.tf", "aws_s3_bucket.logs", "t4", "t4",
            <<Tag("env", "dev")>>,
            <<Tag("owner", "bob"), Tag("git_org", "acme"), Tag("env", "prod"),
              Tag("owner", "alice"), Tag("env", "stage")>>),
      Block("main.tf", "aws_iam_role.ci", "t5", "t5",
            <<Tag("env", "prod")>>, <<Tag("env", "prod")>>) }

GetFilePath(b) == b.file
GetResourceID(b) == b.resourceID
GetTraceID(b) == b.traceID
GetNewTags(b) == b.newTags

\* The first existing tag with key k, or none.
ExistingIndex(b, k) ==
    LET hits == {i \in 1..Len(b.existingTags) : b.existingTags[i].key = k}
    IN  IF hits = {} THEN 0 ELSE CHOOSE i \in hits : \A j \in hits : i <= j

\* The tag diff of a block, computed afresh on every call from its new and
\* existing tags, in the enumeration order of the new tags: Added holds the
\* new tags whose key the block did not have, Updated the changed ones.
RECURSIVE DiffFrom(_, _, _)
DiffFrom(b, i, d) ==
    IF i > Len(b.newTags) THEN d
    ELSE LET t == b.newTags[i]
             e == ExistingIndex(b, t.key)
         IN  IF e = 0
             THEN DiffFrom(b, i + 1, [d EXCEPT !.Added = Append(@, t)])
             ELSE IF b.existingTags[e].value # t.value
             THEN DiffFrom(b, i + 1,
                      [d EXCEPT !.Updated = Append(@,
                          [Key |-> t.key, PrevValue |-> b.existingTags[e].value,
                           NewValue |-> t.value])])
             ELSE DiffFrom(b, i + 1, d)

CalculateTagsDiff(b) == DiffFrom(b, 1, [Added |-> <<>>, Updated |-> <<>>])

(***************************************************************************)
(* The accumulator.                                                        *)
(***************************************************************************)
EmptyAccumulator ==
    [ScannedBlocks |-> <<>>, NewBlockTraces |-> <<>>, UpdatedBlockTraces |-> <<>>]

IsNewTrace(b) == b.prevTrace = "" /\ Len(b.newTags) > 0

IsUpdated(b) ==
    /\ b.prevTrace # ""
    /\ LET d == CalculateTagsDiff(b) IN Len(d.Added) + Len(d.Updated) > 0

Accumulated(a, b) ==
    [ScannedBlocks      |-> Append(a.ScannedBlocks, b),
     NewBlockTraces     |-> IF IsNewTrace(b) THEN Append(a.NewBlockTraces, b)
                            ELSE a.NewBlockTraces,
     UpdatedBlockTraces |-> IF IsUpdated(b) THEN Append(a.UpdatedBlockTraces, b)
                            ELSE a.UpdatedBlockTraces]

(***************************************************************************)
(* The report.                                                             *)
(***************************************************************************)
TagRecord(f, r, k, o, u, t) ==
    [File |-> f, ResourceID |-> r, TagKey |-> k, OldValue |-> o,
     UpdatedValue |-> u, YorTraceID |-> t]

\* The zero value of Report, which &ReportService{} holds.
ZeroReport ==
    [Summary |-> [Scanned |-> 0, NewResources |-> 0, UpdatedResources |-> 0],
     NewResourceTags |-> NilSlice,
     UpdatedResourceTags |-> NilSlice]

(***************************************************************************)
(* CreateReport, statement by statement.                                   *)
(***************************************************************************)
\* Faulty variant: counts every scanned block as a new resource.
ScannedAsSummary(a) ==
    [Scanned          |-> Len(a.ScannedBlocks),
     NewResources     |-> Len(a.ScannedBlocks),
     UpdatedResources |-> Len(a.UpdatedBlockTraces)]

CreateSummary(a) ==
    [Scanned          |-> Len(a.ScannedBlocks),
     NewResources     |-> Len(a.NewBlockTraces),
     UpdatedResources |-> Len(a.UpdatedBlockTraces)]

\* for _, tag := range block.GetNewTags() { append(...) }
RECURSIVE AppendNewTags(_, _, _, _)
AppendNewTags(slice, block, tags, i) ==
    IF i > Len(tags) THEN slice
    ELSE AppendNewTags(
             GoAppend(slice,
                 TagRecord(GetFilePath(block), GetResourceID(block), tags[i].key,
                           "", tags[i].value, GetTraceID(block))),
             block, tags, i + 1)

\* Faulty variant: sorts a new block's tags by key, as the updated blocks' are.
NewBlockRecordsSorted(slice, block) ==
    AppendNewTags(slice, block,
        SliceStable(GetNewTags(block),
            [i \in 1..Len(GetNewTags(block)) |-> GetNewTags(block)[i].key]), 1)

NewBlockRecords(slice, block) == AppendNewTags(slice, block, GetNewTags(block), 1)

\* for _, block := range changesAccumulator.NewBlockTraces
RECURSIVE NewBlocksLoop(_, _, _)
NewBlocksLoop(slice, blocks, i) ==
    IF i > Len(blocks) THEN slice
    ELSE NewBlocksLoop(NewBlockRecords(slice, blocks[i]), blocks, i + 1)

\* for _, val := range diff.Added { append(...) }
RECURSIVE AppendAdded(_, _, _, _)
AppendAdded(slice, block, added, i) ==
    IF i > Len(added) THEN slice
    ELSE AppendAdded(
             GoAppend(slice,
                 TagRecord(GetFilePath(block), GetResourceID(block), added[i].key,
                           "", added[i].value, GetTraceID(block))),
             block, added, i + 1)

\* for _, val := range diff.Updated { append(...) }
RECURSIVE AppendUpdated(_, _, _, _)
AppendUpdated(slice, block, updated, i) ==
    IF i > Len(updated) THEN slice
    ELSE AppendUpdated(
             GoAppend(slice,
                 TagRecord(GetFilePath(block), GetResourceID(block), updated[i].Key,
                           updated[i].PrevValue, updated[i].NewValue,
                           GetTraceID(block))),
             block, updated, i + 1)

\* The diff of a block with both lists sorted in place by key.
SortedDiff(block) ==
    LET diff == CalculateTagsDiff(block)
    IN  [Added   |-> SliceStable(diff.Added,
                         [i \in 1..Len(diff.Added) |-> diff.Added[i].key]),
         Updated |-> SliceStable(diff.Updated,
                         [i \in 1..Len(diff.Updated) |-> diff.Updated[i].Key])]

\* Faulty variant: emits the changed tags before the added ones.
UpdatedBlockRecordsUpdatedFirst(slice, block) ==
    LET diff == SortedDiff(block)
    IN  AppendAdded(AppendUpdated(slice, block, diff.Updated, 1),
                    block, diff.Added, 1)

\* The body of the loop over the updated blocks.
UpdatedBlockRecords(slice, block) ==
    LET diff == SortedDiff(block)
    IN  AppendUpdated(AppendAdded(slice, block, diff.Added, 1),
                      block, diff.Updated, 1)

\* for _, block := range changesAccumulator.UpdatedBlockTraces
RECURSIVE UpdatedBlocksLoop(_, _, _)
UpdatedBlocksLoop(slice, blocks, i) ==
    IF i > Len(blocks) THEN slice
    ELSE UpdatedBlocksLoop(UpdatedBlockRecords(slice, blocks[i]), blocks, i + 1)

\* Faulty variant: leaves out r.report.NewResourceTags = []TagRecord{} and
\* allocates the slice once and appends to what an earlier build left.
CreateReportKeepsNew(r, a) ==
    [Summary             |-> CreateSummary(a),
     NewResourceTags     |-> NewBlocksLoop(
                                 IF r.NewResourceTags.nil THEN EmptySlice
                                 ELSE r.NewResourceTags, a.NewBlockTraces, 1),
     UpdatedResourceTags |-> UpdatedBlocksLoop(EmptySlice, a.UpdatedBlockTraces, 1)]

\* Faulty variant: leaves out r.report.UpdatedResourceTags = []TagRecord{}.
CreateReportKeepsUpdated(r, a) ==
    [Summary             |-> CreateSummary(a),
     NewResourceTags     |-> NewBlocksLoop(EmptySlice, a.NewBlockTraces, 1),
     UpdatedResourceTags |-> UpdatedBlocksLoop(
                                 IF r.UpdatedResourceTags.nil THEN EmptySlice
                                 ELSE r.UpdatedResourceTags,
                                 a.UpdatedBlockTraces, 1)]

\* The value of r.report when CreateReport returns, r being its value at
\* the call: the three fields are assigned in turn.
CreateReportValue(r, a) ==
    LET r1 == [r  EXCEPT !.Summary = CreateSummary(a)]
        r2 == [r1 EXCEPT !.NewResourceTags = EmptySlice]
        r3 == [r2 EXCEPT !.NewResourceTags =
                             NewBlocksLoop(@, a.NewBlockTraces, 1)]
        r4 == [r3 EXCEPT !.UpdatedResourceTags = EmptySlice]
    IN  [r4 EXCEPT !.UpdatedResourceTags =
                       UpdatedBlocksLoop(@, a.UpdatedBlockTraces, 1)]

\* Faulty variant: sorts the updated blocks' own tag lists instead of the diff
\* that CalculateTagsDiff returned.
SortBlockTags(b) ==
    [b EXCEPT !.newTags =
         SliceStable(@, [i \in 1..Len(b.newTags) |-> b.newTags[i].key])]

CreateReportSortsBlocks(r, a) ==
    [report      |-> CreateReportValue(r, a),
     accumulator |-> [a EXCEPT !.UpdatedBlockTraces =
                          [i \in 1..Len(@) |-> SortBlockTags(@[i])]]]

\* Everything CreateReport writes: the singleton's report.  The accumulator
\* is read only, and the two sorts act on the diff value the call made.
CreateReportEffect(r, a) ==
    [report |-> CreateReportValue(r, a), accumulator |-> a]

(***************************************************************************)
(* The structured document.  json.MarshalIndent writes a nil slice as null *)
(* and a non-nil slice as an array, and names the fields by their json     *)
(* tags.                                                                   *)
(***************************************************************************)
JSONRecord(t) ==
    [file |-> t.File, resourceId |-> t.ResourceID, key |-> t.TagKey,
     oldValue |-> t.OldValue, updatedValue |-> t.UpdatedValue,
     yorTraceId |-> t.YorTraceID]

JSONArray(s) ==
    IF s.nil THEN [kind |-> "null", items |-> <<>>]
    ELSE [kind |-> "array",
          items |-> [i \in 1..Len(s.elems) |-> JSONRecord(s.elems[i])]]

JSONDocument(r) ==
    [summary |-> [scanned |-> r.Summary.Scanned,
                  newResources |-> r.Summary.NewResources,
                  updatedResources |-> r.Summary.UpdatedResources],
     newResourceTags |-> JSONArray(r.NewResourceTags),
     updatedResourceTags |-> JSONArray(r.UpdatedResourceTags)]

NilBytes == [nil |-> TRUE]

\* (jr, err) of AsJSONBytes; marshalOK is whether json.MarshalIndent succeeds.
AsJSONBytes(r, marshalOK) ==
    IF marshalOK
    THEN [bytes |-> [nil |-> FALSE, doc |-> JSONDocument(r)], err |-> FALSE]
    ELSE [bytes |-> NilBytes, err |-> TRUE]

\* logger.Warning writes the message to the log and returns.
Warning(log, msg) == Append(log, msg)

NoOutput ==
    [json |-> [bytes |-> NilBytes, err |-> FALSE], marshalErr |-> FALSE,
     writeErr |-> FALSE, warnings |-> <<>>, wrote |-> NilBytes,
     returned |-> FALSE]

\* Faulty variant: returns when serializing fails, without the warning.
PrintJSONToFileSilent(r, marshalOK, writeOK) ==
    LET j == AsJSONBytes(r, marshalOK)
    IN  IF j.err
        THEN [json |-> j, marshalErr |-> TRUE, writeErr |-> FALSE,
              warnings |-> <<>>, wrote |-> NilBytes, returned |-> TRUE]
        ELSE [json |-> j, marshalErr |-> FALSE, writeErr |-> ~writeOK,
              warnings |-> IF writeOK THEN <<>>
                           ELSE <<"Failed to write to JSON file">>,
              wrote |-> j.bytes, returned |-> TRUE]

\* What a PrintJSONToFile call does: the warnings it logs, the bytes it
\* passes to os.WriteFile, and that it returns.  After a failed
\* serialization it goes on to write the nil bytes.
PrintJSONToFileOutput(r, marshalOK, writeOK) ==
    LET j  == AsJSONBytes(r, marshalOK)
        w1 == IF j.err THEN Warning(<<>>, "Failed to create report as JSON")
              ELSE <<>>
        w2 == IF writeOK THEN w1 ELSE Warning(w1, "Failed to write to JSON file")
    IN  [json |-> j, marshalErr |-> j.err, writeErr |-> ~writeOK,
         warnings |-> w2, wrote |-> j.bytes, returned |-> TRUE]

(***************************************************************************)
(* The operations.                                                         *)
(***************************************************************************)
Init ==
    /\ acc = EmptyAccumulator
    /\ report = ZeroReport
    /\ handed = FALSE
    /\ lastOp = "init"
    /\ out = NoOutput
    /\ pre = [acc |-> EmptyAccumulator, report |-> ZeroReport,
              handed |-> FALSE]

\* Every operation records the state it was called in.
Called == pre' = [acc |-> acc, report |-> report, handed |-> handed]

\* The scan hands one more block to the accumulator.
AccumulateChanges ==
    /\ Called
    /\ Len(acc.ScannedBlocks) < MaxBlocks
    /\ \E b \in Blocks : acc' = Accumulated(acc, b)
    /\ lastOp' = "AccumulateChanges"
    /\ out' = NoOutput
    /\ UNCHANGED <<report, handed>>

\* A new run starts with a fresh accumulator.
ResetAccumulator ==
    /\ Called
    /\ acc # EmptyAccumulator
    /\ acc' = EmptyAccumulator
    /\ lastOp' = "ResetAccumulator"
    /\ out' = NoOutput
    /\ UNCHANGED <<report, handed>>

GetReport ==
    /\ Called
    /\ handed' = TRUE
    /\ lastOp' = "GetReport"
    /\ out' = NoOutput
    /\ UNCHANGED <<acc, report>>

CreateReport ==
    /\ Called
    /\ report' = CreateReportEffect(report, acc).report
    /\ acc' = CreateReportEffect(report, acc).accumulator
    /\ handed' = TRUE
    /\ lastOp' = "CreateReport"
    /\ out' = NoOutput

PrintJSONToFile ==
    /\ Called
    /\ \E marshalOK \in BOOLEAN, writeOK \in BOOLEAN :
           out' = PrintJSONToFileOutput(report, marshalOK, writeOK)
    /\ lastOp' = "PrintJSONToFile"
    /\ UNCHANGED <<acc, report, handed>>

Next ==
    \/ AccumulateChanges
    \/ ResetAccumulator
    \/ GetReport
    \/ CreateReport
    \/ PrintJSONToFile

Spec == Init /\ [][Next]_vars

(***************************************************************************)
(* Properties.                                                             *)
(***************************************************************************)
AfterCreateReport == lastOp = "CreateReport"

NewRecords == report.NewResourceTags.elems
UpdatedRecords == report.UpdatedResourceTags.elems

\* The distinct resource identifiers among a sequence of records.
ResourceIDs(recs) == {recs[i].ResourceID : i \in 1..Len(recs)}

DiffSize(b) ==
    Len(CalculateTagsDiff(b).Added) + Len(CalculateTagsDiff(b).Updated)

\* The number of records the blocks before the b-th contribute.
RECURSIVE NewTagsBefore(_, _)
NewTagsBefore(blocks, b) ==
    IF b <= 1 THEN 0
    ELSE NewTagsBefore(blocks, b - 1) + Len(GetNewTags(blocks[b - 1]))

RECURSIVE DiffEntriesBefore(_, _)
DiffEntriesBefore(blocks, b) ==
    IF b <= 1 THEN 0
    ELSE DiffEntriesBefore(blocks, b - 1) + DiffSize(blocks[b - 1])

PairwiseDistinctIDs(blocks) ==
    \A i, j \in 1..Len(blocks) :
        i # j => GetResourceID(blocks[i]) # GetResourceID(blocks[j])

\* How often x occurs in the sequence s.
Occurrences(s, x) == Cardinality({i \in 1..Len(s) : s[i] = x})

\* s and t hold the same elements, each as often.
SameElements(s, t) ==
    /\ Len(s) = Len(t)
    /\ \A i \in 1..Len(s) : Occurrences(s, s[i]) = Occurrences(t, s[i])

\* C1 as stated: after CreateReport the summary's NewResources is the
\* number of distinct resource identifiers in NewResourceTags, and
\* UpdatedResources that of UpdatedResourceTags.
C1_CountsDistinctResourceIDs ==
    AfterCreateReport =>
        /\ report.Summary.NewResources = Cardinality(ResourceIDs(NewRecords))
        /\ report.Summary.UpdatedResources = Cardinality(ResourceIDs(UpdatedRecords))

\* C1 amended: after CreateReport NewResources is the number of blocks in
\* NewBlockTraces and UpdatedResources the number of blocks in
\* UpdatedBlockTraces; the distinct resource identifiers in the record
\* sequences never exceed these counts, and equal them when every block of
\* the list contributes a record and no two share a resource identifier.
C1_CountsBlocks ==
    AfterCreateReport =>
        /\ report.Summary.NewResources = Len(acc.NewBlockTraces)
        /\ report.Summary.UpdatedResources = Len(acc.UpdatedBlockTraces)
        /\ Cardinality(ResourceIDs(NewRecords)) <= report.Summary.NewResources
        /\ Cardinality(ResourceIDs(UpdatedRecords)) <= report.Summary.UpdatedResources
        /\ ( /\ PairwiseDistinctIDs(acc.NewBlockTraces)
             /\ \A i \in 1..Len(acc.NewBlockTraces) :
                    Len(GetNewTags(acc.NewBlockTraces[i])) > 0 )
           => Cardinality(ResourceIDs(NewRecords)) = report.Summary.NewResources
        /\ ( /\ PairwiseDistinctIDs(acc.UpdatedBlockTraces)
             /\ \A i \in 1..Len(acc.UpdatedBlockTraces) :
                    DiffSize(acc.UpdatedBlockTraces[i]) > 0 )
           => Cardinality(ResourceIDs(UpdatedRecords)) = report.Summary.UpdatedResources

\* Two new blocks with one resource identifier were reported.
C1_Witness ==
    /\ AfterCreateReport
    /\ Len(acc.NewBlockTraces) = 2
    /\ ~PairwiseDistinctIDs(acc.NewBlockTraces)
    /\ report.Summary.NewResources = 2
    /\ Cardinality(ResourceIDs(NewRecords)) = 1

\* The records of the b-th updated block that come from its Added tags,
\* and those that come from its Updated tags.
AddedSegment(b) ==
    LET blocks == acc.UpdatedBlockTraces
        off    == DiffEntriesBefore(blocks, b)
    IN  SubSeq(UpdatedRecords, off + 1,
               off + Len(CalculateTagsDiff(blocks[b]).Added))

UpdatedSegment(b) ==
    LET blocks == acc.UpdatedBlockTraces
        off    == DiffEntriesBefore(blocks, b)
                      + Len(CalculateTagsDiff(blocks[b]).Added)
    IN  SubSeq(UpdatedRecords, off + 1,
               off + Len(CalculateTagsDiff(blocks[b]).Updated))

AscendingKeys(recs) ==
    \A i, j \in 1..Len(recs) :
        i < j => KeyRank[recs[i].TagKey] <= KeyRank[recs[j].TagKey]

Keys == DOMAIN KeyRank

\* C2: after CreateReport, for every updated block, the records from its
\* Added tags are in ascending key order and the records from its Updated
\* tags are in ascending key order, each list on its own, and records with
\* equal keys keep the order the diff enumerated them in.
C2_DiffListsStablySorted ==
    AfterCreateReport =>
        \A b \in 1..Len(acc.UpdatedBlockTraces) :
            LET diff == CalculateTagsDiff(acc.UpdatedBlockTraces[b])
                aseg == AddedSegment(b)
                useg == UpdatedSegment(b)
            IN  /\ Len(UpdatedRecords) >=
                       DiffEntriesBefore(acc.UpdatedBlockTraces, b)
                           + Len(diff.Added) + Len(diff.Updated)
                /\ AscendingKeys(aseg)
                /\ AscendingKeys(useg)
                /\ \A k \in Keys :
                     LET recsK == SelectSeq(aseg, LAMBDA r : r.TagKey = k)
                         tagsK == SelectSeq(diff.Added, LAMBDA t : t.key = k)
                     IN  /\ Len(recsK) = Len(tagsK)
                         /\ \A i \in 1..Len(recsK) :
                                recsK[i].UpdatedValue = tagsK[i].value
                /\ \A k \in Keys :
                     LET recsK == SelectSeq(useg, LAMBDA r : r.TagKey = k)
                         diffK == SelectSeq(diff.Updated, LAMBDA t : t.Key = k)
                     IN  /\ Len(recsK) = Len(diffK)
                         /\ \A i \in 1..Len(recsK) :
                                /\ recsK[i].OldValue = diffK[i].PrevValue
                                /\ recsK[i].UpdatedValue = diffK[i].NewValue

\* An updated block was reported whose diff enumerated its added tags out
\* of key order and with a repeated key, and its changed tags with a
\* repeated key.
C2_Witness ==
    /\ AfterCreateReport
    /\ \E b \in 1..Len(acc.UpdatedBlockTraces) :
         LET diff == CalculateTagsDiff(acc.UpdatedBlockTraces[b])
         IN  /\ \E i, j \in 1..Len(diff.Added) :
                    i < j /\ KeyRank[diff.Added[j].key] < KeyRank[diff.Added[i].key]
             /\ \E i, j \in 1..Len(diff.Added) :
                    /\ i < j
                    /\ diff.Added[i].key = diff.Added[j].key
                    /\ diff.Added[i].value # diff.Added[j].value
             /\ \E i, j \in 1..Len(diff.Updated) :
                    i < j /\ diff.Updated[i].Key = diff.Updated[j].Key
             /\ Len(AddedSegment(b)) = Len(diff.Added)
             /\ Len(UpdatedSegment(b)) = Len(diff.Updated)

\* The block a record of the report names.
FromBlock(rec, block) ==
    /\ rec.File = GetFilePath(block)
    /\ rec.ResourceID = GetResourceID(block)
    /\ rec.YorTraceID = GetTraceID(block)

\* C3: after CreateReport, UpdatedResourceTags is the concatenation, in
\* UpdatedBlockTraces order, of each block's contribution; in a
\* contribution the records of the Added tags (OldValue empty, UpdatedValue
\* the tag's value) come before the records of the Updated tags (OldValue
\* PrevValue, UpdatedValue NewValue); every record carries its block's
\* File, ResourceID and YorTraceID, and each diff entry has one record.
C3_UpdatedRecordsPerBlockAddedFirst ==
    AfterCreateReport =>
        LET blocks == acc.UpdatedBlockTraces
        IN  /\ ~report.UpdatedResourceTags.nil
            /\ Len(UpdatedRecords) = DiffEntriesBefore(blocks, Len(blocks) + 1)
            /\ \A b \in 1..Len(blocks) :
                 LET diff == CalculateTagsDiff(blocks[b])
                     aseg == AddedSegment(b)
                     useg == UpdatedSegment(b)
                 IN  /\ \A i \in 1..Len(aseg) :
                            FromBlock(aseg[i], blocks[b]) /\ aseg[i].OldValue = ""
                     /\ \A i \in 1..Len(useg) : FromBlock(useg[i], blocks[b])
                     /\ SameElements(
                            [i \in 1..Len(aseg) |->
                                <<aseg[i].TagKey, aseg[i].UpdatedValue>>],
                            [i \in 1..Len(diff.Added) |->
                                <<diff.Added[i].key, diff.Added[i].value>>])
                     /\ SameElements(
                            [i \in 1..Len(useg) |->
                                <<useg[i].TagKey, useg[i].OldValue,
                                  useg[i].UpdatedValue>>],
                            [i \in 1..Len(diff.Updated) |->
                                <<diff.Updated[i].Key, diff.Updated[i].PrevValue,
                                  diff.Updated[i].NewValue>>])

\* Two updated blocks, each with added and with changed tags, were reported.
C3_Witness ==
    /\ AfterCreateReport
    /\ Len(acc.UpdatedBlockTraces) = 2
    /\ acc.UpdatedBlockTraces[1] # acc.UpdatedBlockTraces[2]
    /\ \A b \in 1..2 :
           /\ Len(CalculateTagsDiff(acc.UpdatedBlockTraces[b]).Added) > 0
           /\ Len(CalculateTagsDiff(acc.UpdatedBlockTraces[b]).Updated) > 0
    /\ Len(UpdatedRecords) = DiffSize(acc.UpdatedBlockTraces[1])
                                 + DiffSize(acc.UpdatedBlockTraces[2])

\* C4: after CreateReport, NewResourceTags holds one record per tag that
\* GetNewTags returns for each block of NewBlockTraces, with OldValue empty
\* and UpdatedValue the tag's value, blocks in NewBlockTraces order and a
\* block's tags in GetNewTags order, not sorted by key.
C4_NewRecordsInEnumerationOrder ==
    AfterCreateReport =>
        LET blocks == acc.NewBlockTraces
        IN  /\ ~report.NewResourceTags.nil
            /\ Len(NewRecords) = NewTagsBefore(blocks, Len(blocks) + 1)
            /\ \A b \in 1..Len(blocks) :
                 \A i \in 1..Len(GetNewTags(blocks[b])) :
                    LET rec == NewRecords[NewTagsBefore(blocks, b) + i]
                        tag == GetNewTags(blocks[b])[i]
                    IN  /\ FromBlock(rec, blocks[b])
                        /\ rec.TagKey = tag.key
                        /\ rec.OldValue = ""
                        /\ rec.UpdatedValue = tag.value

\* Two new blocks were reported, and the tags of one are not in key order.
C4_Witness ==
    /\ AfterCreateReport
    /\ Len(acc.NewBlockTraces) = 2
    /\ acc.NewBlockTraces[1] # acc.NewBlockTraces[2]
    /\ \E b \in 1..2 :
         LET tags == GetNewTags(acc.NewBlockTraces[b])
         IN  \E i, j \in 1..Len(tags) :
                 i < j /\ KeyRank[tags[j].key] < KeyRank[tags[i].key]
    /\ Len(NewRecords) = 3

\* C5: after CreateReport the stored report is what a build of the current
\* accumulator into a fresh Report gives, whatever the report held before:
\* every record belongs to a block the accumulator lists now, and there are
\* as many records as these blocks have tags and diff entries.
C5_ReportFullyOverwritten ==
    AfterCreateReport =>
        /\ report = CreateReportValue(ZeroReport, acc)
        /\ Len(NewRecords) =
               NewTagsBefore(acc.NewBlockTraces, Len(acc.NewBlockTraces) + 1)
        /\ Len(UpdatedRecords) =
               DiffEntriesBefore(acc.UpdatedBlockTraces,
                                 Len(acc.UpdatedBlockTraces) + 1)
        /\ \A i \in 1..Len(NewRecords) :
               \E b \in 1..Len(acc.NewBlockTraces) :
                   FromBlock(NewRecords[i], acc.NewBlockTraces[b])
        /\ \A i \in 1..Len(UpdatedRecords) :
               \E b \in 1..Len(acc.UpdatedBlockTraces) :
                   FromBlock(UpdatedRecords[i], acc.UpdatedBlockTraces[b])
        /\ report.Summary.Scanned = Len(acc.ScannedBlocks)

\* CreateReport ran on a report that held new and updated records, against
\* an accumulator that no longer lists the blocks they came from.
C5_Witness ==
    /\ AfterCreateReport
    /\ Len(pre.report.NewResourceTags.elems) > 0
    /\ Len(pre.report.UpdatedResourceTags.elems) > 0
    /\ \E i \in 1..Len(pre.report.NewResourceTags.elems) :
           \A b \in 1..Len(acc.NewBlockTraces) :
               ~FromBlock(pre.report.NewResourceTags.elems[i], acc.NewBlockTraces[b])
    /\ report # pre.report

\* C6 as stated: once a caller holds the Report that CreateReport or
\* GetReport returned, no operation changes what that Report holds: its
\* summary and its two record sequences stay as they were.
C6_HandedReportNeverChanges ==
    pre.handed =>
        /\ report.Summary = pre.report.Summary
        /\ report.NewResourceTags.elems = pre.report.NewResourceTags.elems
        /\ report.UpdatedResourceTags.elems = pre.report.UpdatedResourceTags.elems

\* C7: a CreateReport that follows a CreateReport with the accumulator
\* unchanged in between leaves the report as it was: same summary, same
\* NewResourceTags and same UpdatedResourceTags, record for record.
C7_CreateReportIdempotent ==
    [][(lastOp = "CreateReport" /\ lastOp' = "CreateReport" /\ acc' = acc)
           => report' = report]_vars

\* CreateReport ran on the report it had built from the same accumulator,
\* which holds new and updated records.
C7_Witness ==
    /\ AfterCreateReport
    /\ pre.acc = acc
    /\ pre.report = report
    /\ pre.handed
    /\ Len(NewRecords) > 0
    /\ Len(UpdatedRecords) > 0

C9_EmptyStateReport ==
    (AfterCreateReport /\ acc = EmptyAccumulator) =>
        /\ report.Summary = [Scanned |-> 0, NewResources |-> 0, UpdatedResources |-> 0]
        /\ report.NewResourceTags = [nil |-> FALSE, elems |-> <<>>]
        /\ report.UpdatedResourceTags = [nil |-> FALSE, elems |-> <<>>]
        /\ JSONDocument(report).newResourceTags = [kind |-> "array", items |-> <<>>]
        /\ JSONDocument(report).updatedResourceTags = [kind |-> "array", items |-> <<>>]

\* CreateReport ran on the empty accumulator, over a report with records.
C9_Witness ==
    /\ AfterCreateReport
    /\ acc = EmptyAccumulator
    /\ Len(pre.report.NewResourceTags.elems) > 0
    /\ Len(NewRecords) = 0

\* C10: PrintJSONToFile returns to its caller whether or not serializing
\* or writing failed, logs a warning for each failure, and leaves the
\* stored Report as it was; when serializing fails, AsJSONBytes gives an
\* error and no bytes.
C10_PrintJSONToFileNeverEscalates ==
    lastOp = "PrintJSONToFile" =>
        /\ out.returned
        /\ report = pre.report
        /\ out.marshalErr =>
               /\ out.json = [bytes |-> NilBytes, err |-> TRUE]
               /\ \E i \in 1..Len(out.warnings) :
                      out.warnings[i] = "Failed to create report as JSON"
        /\ out.writeErr =>
               \E i \in 1..Len(out.warnings) :
                   out.warnings[i] = "Failed to write to JSON file"
        /\ (~out.marshalErr /\ ~out.writeErr) => out.warnings = <<>>

\* PrintJSONToFile ran on a built report with serializing and writing both
\* failing.
C10_Witness ==
    /\ lastOp = "PrintJSONToFile"
    /\ out.marshalErr
    /\ out.writeErr
    /\ Len(out.warnings) = 2
    /\ Len(NewRecords) > 0

====
